---- MODULE Spec2Model ----
(***************************************************************************)
(* Model of the mcp-tesseract server's tools                               *)
(* (src/mcptesseract/server/tesseract.py) and of its chat clients          *)
(* (src/mcptesseract/clients).                                             *)
(*                                                                         *)
(* Python strings are sequences of one-character strings.  An optional     *)
(* value (Python's None or a value) is the empty sequence None or the      *)
(* one-element sequence Some(v).                                           *)
(***************************************************************************)
EXTENDS Integers, Sequences, FiniteSets, TLC

VARIABLES
    entry_text,     \* argument of the latest parse_bibliography_entry call
    result,         \* its return value: None, or Some(dict)
    pc,             \* "call" before the function body ran, then "return"
                    \* or "raise"
    db_exists,      \* the database file at db_path exists
    bib_schema,     \* the bibliography table: "none", "text" or "json"
    bib_rows,       \* its rows, in insertion order
    bib_seq,        \* the largest id AUTOINCREMENT has handed out for it
    source_line,    \* history: source_line[k] is the file line that
                    \* bib_rows[k] was made from
    ret,            \* what the latest tool invocation returned, and
                    \* whether it closed the connection it opened
    json_rows,      \* the rows of the bibliography table while it has the
                    \* JSON schema, in insertion order
    folder_path,    \* argument of the latest process_ground_truth_folder
                    \* or process_json_ground_truth call
    word_db,        \* the word-frequency database file exists
    word_table,     \* it has the word_freq table
    word_freq,      \* the table: a function from its words to their counts
    txt_file_path,  \* argument of the latest store_word_frequencies call
    output_folder,  \* the transcription folder exists
    transcriptions, \* the images whose transcription file is in it
    client,         \* the chat client that runs
    client_pc,      \* where its coroutine stands
    conversation_history,
                    \* the messages it keeps (`conversation` in
                    \* simple_client; basic_client keeps none)
    tool_calls,     \* the tool calls of the LLM response being handled
    call_index,     \* the position in tool_calls of the loop over them
    in_flight,      \* the tool calls awaiting session.call_tool
    turns           \* the user turns read so far

parse_vars == <<entry_text, result, pc>>
store_vars == <<db_exists, bib_schema, bib_rows, bib_seq, source_line>>
json_vars == <<json_rows, folder_path>>
word_vars == <<word_db, word_table, word_freq, txt_file_path>>
ocr_vars == <<output_folder, transcriptions>>
client_vars == <<client, client_pc, conversation_history, tool_calls,
                 call_index, in_flight, turns>>
\* what the bibliography tools leave alone
beside_store == <<word_vars, ocr_vars, client_vars>>
\* what the word-frequency and OCR tools leave alone
beside_words == <<parse_vars, store_vars, json_vars, client_vars>>
\* what the clients leave alone
beside_client == <<parse_vars, store_vars, json_vars, word_vars, ocr_vars,
                   ret>>
vars == <<entry_text, result, pc, db_exists, bib_schema, bib_rows, bib_seq,
          source_line, ret, json_rows, folder_path, word_db, word_table,
          word_freq, txt_file_path, output_folder, transcriptions, client,
          client_pc, conversation_history, tool_calls, call_index,
          in_flight, turns>>

None == <<>>
Some(v) == <<v>>
IsSome(o) == Len(o) = 1
Val(o) == o[1]

----------------------------------------------------------------------------
(* Character classes of Python's str and re modules.                       *)

UpperChars ==
    {"A","B","C","D","E","F","G","H","I","J","K","L","M",
     "N","O","P","Q","R","S","T","U","V","W","X","Y","Z"}

LowerChars ==
    {"a","b","c","d","e","f","g","h","i","j","k","l","m",
     "n","o","p","q","r","s","t","u","v","w","x","y","z"}

DigitChars == {"0","1","2","3","4","5","6","7","8","9"}

\* str.strip() with no argument and the regex class \s
WhiteSpace == {" ", "\t", "\n", "\r"}

\* the regex class \w
WordChars == UpperChars \cup LowerChars \cup DigitChars \cup {"_"}

DigitVal(c) ==
    CASE c = "0" -> 0 [] c = "1" -> 1 [] c = "2" -> 2 [] c = "3" -> 3
      [] c = "4" -> 4 [] c = "5" -> 5 [] c = "6" -> 6 [] c = "7" -> 7
      [] c = "8" -> 8 [] c = "9" -> 9

\* int(s) for a string of decimal digits
RECURSIVE IntOf(_)
IntOf(s) ==
    IF Len(s) = 0 THEN 0
    ELSE 10 * IntOf(SubSeq(s, 1, Len(s) - 1)) + DigitVal(s[Len(s)])

----------------------------------------------------------------------------
(* Python str methods.  Positions are 1-based.                             *)

Min(S) == CHOOSE x \in S : \A y \in S : x <= y
Max(S) == CHOOSE x \in S : \A y \in S : x >= y

\* s[i-1:] begins with pat
StartsWithAt(s, i, pat) ==
    /\ i >= 1
    /\ i + Len(pat) - 1 <= Len(s)
    /\ SubSeq(s, i, i + Len(pat) - 1) = pat

\* pat in s
Contains(s, pat) == \E i \in 1..Len(s) : StartsWithAt(s, i, pat)

\* s.find(pat) + 1: the first position where pat occurs, 0 when it does not
Find(s, pat) ==
    LET hits == {i \in 1..Len(s) : StartsWithAt(s, i, pat)}
    IN  IF hits = {} THEN 0 ELSE Min(hits)

\* s.count(c) for a single character c
Count(s, c) == Cardinality({i \in 1..Len(s) : s[i] = c})

\* s[i-1:]
From(s, i) == SubSeq(s, i, Len(s))

\* s.split(sep): every non-overlapping occurrence, left to right
RECURSIVE Split(_, _)
Split(s, sep) ==
    LET i == Find(s, sep)
    IN  IF i = 0 THEN <<s>>
        ELSE <<SubSeq(s, 1, i - 1)>> \o Split(From(s, i + Len(sep)), sep)

\* sep.join(parts)
RECURSIVE Join(_, _)
Join(parts, sep) ==
    IF Len(parts) = 0 THEN <<>>
    ELSE IF Len(parts) = 1 THEN parts[1]
    ELSE parts[1] \o sep \o Join(Tail(parts), sep)

\* s.replace(old, ''): every non-overlapping occurrence is removed
RECURSIVE Remove(_, _)
Remove(s, old) ==
    LET i == Find(s, old)
    IN  IF i = 0 THEN s
        ELSE SubSeq(s, 1, i - 1) \o Remove(From(s, i + Len(old)), old)

\* s.strip(chars)
StripChars(s, chars) ==
    LET keep == {i \in 1..Len(s) : s[i] \notin chars}
    IN  IF keep = {} THEN <<>> ELSE SubSeq(s, Min(keep), Max(keep))

\* s.strip()
Strip(s) == StripChars(s, WhiteSpace)

----------------------------------------------------------------------------
(* Regular-expression pieces.  A match is a record of 1-based inclusive    *)
(* spans; re.search returns the match at the leftmost start position, and  *)
(* at that position the first one in backtracking order.                   *)

\* end (exclusive) of the longest run of characters of class cls from i
RunEnd(s, i, cls) ==
    LET stops == {j \in i..Len(s) : s[j] \notin cls}
    IN  IF stops = {} THEN Len(s) + 1 ELSE Min(stops)

\* end (exclusive) of the longest run of characters other than c from i
RunEndNot(s, i, c) ==
    LET stops == {j \in i..Len(s) : s[j] = c}
    IN  IF stops = {} THEN Len(s) + 1 ELSE Min(stops)

IsWordAt(s, i) == i >= 1 /\ i <= Len(s) /\ s[i] \in WordChars

\* \b holds between the characters at i-1 and i
WordBoundary(s, i) == IsWordAt(s, i - 1) # IsWordAt(s, i)

\* \d{4} matches at i
FourDigitsAt(s, i) ==
    /\ i + 3 <= Len(s)
    /\ \A j \in i..(i + 3) : s[j] \in DigitChars

\* re.search(r'\d{4}', s) is not None
HasFourDigits(s) == \E i \in 1..Len(s) : FourDigitsAt(s, i)

----------------------------------------------------------------------------
(* The regular expressions of parse_bibliography_entry.  re.search returns *)
(* the match at the leftmost start position; values computed once in the   *)
(* source are handed on as operator arguments.                             *)

\* the leftmost start position of a set of them, 0 when there is none
FirstStart(starts) == IF starts = {} THEN 0 ELSE Min(starts)

\* r'\b([A-Z]{2,4})\b' matches at i with k letters in the group
LibraryMatchAt(s, i, k) ==
    /\ WordBoundary(s, i)
    /\ i + k - 1 <= Len(s)
    /\ \A j \in i..(i + k - 1) : s[j] \in UpperChars
    /\ WordBoundary(s, i + k)

\* group(1) of the match at i: the quantifier {2,4} is greedy
LibraryGroup(s, i) ==
    IF i = 0 THEN None
    ELSE Some(SubSeq(s, i, i + Max({k \in 2..4 : LibraryMatchAt(s, i, k)}) - 1))

\* LibrarySearch with the closing \b of the pattern left out
LibraryMatchOpenAt(s, i, k) ==
    /\ WordBoundary(s, i)
    /\ i + k - 1 <= Len(s)
    /\ \A j \in i..(i + k - 1) : s[j] \in UpperChars

LibraryGroupOpen(s, i) ==
    IF i = 0 THEN None
    ELSE Some(SubSeq(s, i,
                     i + Max({k \in 2..4 : LibraryMatchOpenAt(s, i, k)}) - 1))

LibrarySearchOpen(s) ==
    LibraryGroupOpen(s, FirstStart({i \in 1..Len(s) :
                                \E k \in 2..4 : LibraryMatchOpenAt(s, i, k)}))

\* re.search(r'\b([A-Z]{2,4})\b', s): group(1), or None
LibrarySearch(s) ==
    LibraryGroup(s, FirstStart({i \in 1..Len(s) :
                                   \E k \in 2..4 : LibraryMatchAt(s, i, k)}))

\* group(1) of the title pattern without its optional group
TitleGroupPlain(s, e) ==
    IF e = 1 THEN None ELSE Some(SubSeq(s, 1, e - 1))

\* group(1) of the title pattern, given the end e (exclusive) of the
\* leading run of non-period characters: the optional group joins when the
\* run is directly followed by "..." and then takes the next run
TitleGroup(s, e) ==
    IF e = 1 THEN None
    ELSE IF StartsWithAt(s, e, <<".", ".", ".">>)
         THEN Some(SubSeq(s, 1, RunEndNot(s, e + 3, ".") - 1))
         ELSE Some(SubSeq(s, 1, e - 1))

\* re.match(r'^([^.]+(?:\.\.\.[^.]*)?)', s): group(1), or None
TitleMatch(s) == TitleGroup(s, RunEndNot(s, 1, "."))

\* PagesTail for a pattern that asks for no digit: (\d*\s*p\.)
PagesTailNoDigit(s, i, d) ==
    IF StartsWithAt(s, RunEnd(s, d, WhiteSpace), <<"p", ".">>)
    THEN RunEnd(s, d, WhiteSpace) + 1
    ELSE 0

\* \s*p\. matches at d, where the digits that start at i end: the end
\* (inclusive) of the pages token, 0 when there is none
PagesTail(s, i, d) ==
    IF d > i /\ StartsWithAt(s, RunEnd(s, d, WhiteSpace), <<"p", ".">>)
    THEN RunEnd(s, d, WhiteSpace) + 1
    ELSE 0

\* (\d+\s*p\.) matches at i: the end (inclusive) of the match, 0 when none.
\* \d+ and \s* are greedy and giving a character back never helps, as the
\* next item cannot match a digit (resp. a whitespace character).
PagesEndAt(s, i) == PagesTail(s, i, RunEnd(s, i, DigitChars))

\* where group 2 of ([^:]+):\s*([^,]+) starts: \s* takes the whitespace
\* run after the colon, up to w, unless that leaves nothing for [^,]+
\* before m, in which case it gives one character back
GroupTwoStart(w, m) == IF w < m THEN w ELSE w - 1

\* the spans <<end of 1, start of 2, end of 2 (exclusive)>> of
\* ([^:]+):\s*([^,]+) matched from i, with the colon at c, group 2 from b
\* and the next comma (or the end of the string) at m; <<>> when no match
PlacePubSpans(s, i, c, b, m) ==
    IF c > i /\ c <= Len(s) /\ b >= c + 1 /\ b < m
    THEN <<c - 1, b, m>>
    ELSE <<>>

\* ([^:]+):\s*([^,]+) matches from i: [^:]+ runs to the first colon c
\* after i, [^,]+ to the next comma or to the end of the string
PlacePubColon(s, i, c) ==
    PlacePubSpans(s, i, c,
                  GroupTwoStart(RunEnd(s, c + 1, WhiteSpace),
                                RunEndNot(s, c + 1, ",")),
                  RunEndNot(s, c + 1, ","))

PlacePubAt(s, i) == PlacePubColon(s, i, RunEndNot(s, i, ":"))

\* the groups of the place/publisher match that starts at i
PlacePubGroups(s, i, g) ==
    IF i = 0 THEN None
    ELSE Some([place     |-> SubSeq(s, i, g[1]),
               publisher |-> SubSeq(s, g[2], g[3] - 1)])

PlacePubFirst(s, i) == PlacePubGroups(s, i, PlacePubAt(s, i))

\* re.search(r'([^:]+):\s*([^,]+)', s): the two groups, or None
PlacePubSearch(s) ==
    PlacePubFirst(s, FirstStart({i \in 1..Len(s) : PlacePubAt(s, i) # <<>>}))

\* ,\s*(\d{4})\.\s*(\d+\s*p\.) after group 2: the year starts at y and
\* the pages token runs from pg to e
PubSpans(s, g, y, pg, e) ==
    IF /\ FourDigitsAt(s, y)
       /\ StartsWithAt(s, y + 4, <<".">>)
       /\ e # 0
    THEN <<g[1], g[2], g[3], y, pg, e>>
    ELSE <<>>

PubPages(s, g, y, pg) == PubSpans(s, g, y, pg, PagesEndAt(s, pg))

PubYear(s, g, y) == PubPages(s, g, y, RunEnd(s, y + 5, WhiteSpace))

\* the combined pattern after ([^:]+):\s*([^,]+) matched with spans g:
\* group 2 must stop at a comma
PubTail(s, g) ==
    IF g = <<>> \/ g[3] > Len(s) THEN <<>>
    ELSE PubYear(s, g, RunEnd(s, g[3] + 1, WhiteSpace))

\* ([^:]+):\s*([^,]+),\s*(\d{4})\.\s*(\d+\s*p\.) matches from i: the spans
\* <<end of 1, start of 2, end of 2 (exclusive), start of year, start of
\* pages, end of pages>>, or <<>>
PubAt(s, i) == PubTail(s, PlacePubAt(s, i))

\* the four groups of the combined match that starts at i
PubGroups(s, i, g) ==
    IF i = 0 THEN None
    ELSE Some([place     |-> SubSeq(s, i, g[1]),
               publisher |-> SubSeq(s, g[2], g[3] - 1),
               year      |-> SubSeq(s, g[4], g[4] + 3),
               pages     |-> SubSeq(s, g[5], g[6])])

PubFirst(s, i) == PubGroups(s, i, PubAt(s, i))

\* re.search of the combined publication pattern: its groups, or None
PubSearch(s) ==
    PubFirst(s, FirstStart({i \in 1..Len(s) : PubAt(s, i) # <<>>}))

\* YearAt with \w{4} in the place of \d{4}
YearAtWord(s, i) ==
    /\ WordBoundary(s, i)
    /\ i + 3 <= Len(s)
    /\ \A j \in i..(i + 3) : s[j] \in WordChars
    /\ WordBoundary(s, i + 4)

\* \b(\d{4})\b matches at i
YearAt(s, i) ==
    /\ WordBoundary(s, i)
    /\ FourDigitsAt(s, i)
    /\ WordBoundary(s, i + 4)

YearGroup(s, i) == IF i = 0 THEN None ELSE Some(SubSeq(s, i, i + 3))

\* re.search(r'\b(\d{4})\b', s): group(1), or None
YearSearch(s) == YearGroup(s, FirstStart({i \in 1..Len(s) : YearAt(s, i)}))

PagesGroup(s, i) ==
    IF i = 0 THEN None ELSE Some(SubSeq(s, i, PagesEndAt(s, i)))

\* re.search(r'(\d+\s*p\.)', s): group(1), or None
PagesSearch(s) ==
    PagesGroup(s, FirstStart({i \in 1..Len(s) : PagesEndAt(s, i) # 0}))

----------------------------------------------------------------------------
(* parse_bibliography_entry                                                *)

\* the string literals of the function
AuthorEntries == <<"A","u","t","h","o","r"," ","E","n","t","r","i","e","s">>
SeeWord       == <<" ","S","e","e"," ">>
SeeSeparator  == <<"."," ","S","e","e"," ">>
SeePrefix     == <<"S","e","e"," ">>
PeriodSpace   == <<"."," ">>

\* the dictionary the function starts from
InitialResult ==
    [author |-> None, title |-> None, note |-> None, year |-> None,
     place |-> None, publisher |-> None, pages |-> None, library |-> None]

\* the cross-reference branch is taken
IsCrossReference(entry) ==
    Contains(entry, SeeWord) /\ Count(entry, ".") <= 2

\* the dictionary of the cross-reference branch, given entry.split('. See ')
CrossReferenceParts(parts) ==
    IF Len(parts) = 2
    THEN [InitialResult EXCEPT !.author = Some(Strip(parts[1])),
                               !.note   = Some(SeePrefix \o parts[2])]
    ELSE InitialResult

\* the dictionary returned by the cross-reference branch
CrossReference(entry) == CrossReferenceParts(Split(entry, SeeSeparator))

\* last_part: the trimmed last segment when there are more than two
LastPart(parts) ==
    IF Len(parts) > 2 THEN Strip(parts[Len(parts)]) ELSE <<>>

\* the last segment is taken as the note
LooksLikeNote(last_part) ==
    /\ last_part # <<>>
    /\ ~ HasFourDigits(last_part)
    /\ ~ Contains(last_part, <<":">>)

\* result["note"] after the note test
Note(parts) ==
    IF Len(parts) >= 2 /\ LooksLikeNote(LastPart(parts))
    THEN Some(LastPart(parts))
    ELSE None

\* MiddleParts that keeps the last segment also when it is the note
MiddlePartsKeepingLast(parts) ==
    IF Len(parts) >= 2
    THEN Join(SubSeq(parts, 2, Len(parts)), PeriodSpace)
    ELSE <<>>

\* middle_parts before the library code is removed from it
MiddleParts(parts) ==
    IF Len(parts) >= 2
    THEN IF LooksLikeNote(LastPart(parts))
         THEN Join(SubSeq(parts, 2, Len(parts) - 1), PeriodSpace)
         ELSE Join(SubSeq(parts, 2, Len(parts)), PeriodSpace)
    ELSE <<>>

\* middle_parts after the library code is removed from it
StripLibrary(middle_parts, library) ==
    IF /\ IsSome(library)
       /\ Val(library) # <<>>
       /\ Contains(middle_parts, Val(library))
    THEN StripChars(Remove(middle_parts, Val(library)), {".", " "})
    ELSE middle_parts

\* result["title"] given the title match
Title(title_match) ==
    IF IsSome(title_match) THEN Some(Strip(Val(title_match))) ELSE None

\* the text left for the publication patterns, given the title match
RemainingAfter(middle_parts, title_match) ==
    IF IsSome(title_match)
    THEN StripChars(From(middle_parts, Len(Val(title_match)) + 1), {".", " "})
    ELSE middle_parts

Remaining(middle_parts) ==
    RemainingAfter(middle_parts, TitleMatch(middle_parts))

\* the publication fields, given the four matches on the remaining text
PublicationFields(res, pub_match, year_match, pages_match, place_pub_match) ==
    IF IsSome(pub_match)
    THEN [res EXCEPT
             !.place     = Some(Strip(Val(pub_match).place)),
             !.publisher = Some(Strip(Val(pub_match).publisher)),
             !.year      = Some(IntOf(Val(pub_match).year)),
             !.pages     = Some(Strip(Val(pub_match).pages))]
    ELSE [res EXCEPT
             !.year      = IF IsSome(year_match)
                           THEN Some(IntOf(Val(year_match))) ELSE None,
             !.pages     = pages_match,
             !.place     = IF IsSome(place_pub_match)
                           THEN Some(Strip(Val(place_pub_match).place))
                           ELSE None,
             !.publisher = IF IsSome(place_pub_match)
                           THEN Some(Strip(Val(place_pub_match).publisher))
                           ELSE None]

\* the publication fields set from the text after the title
Publication(res, remaining) ==
    PublicationFields(res, PubSearch(remaining), YearSearch(remaining),
                      PagesSearch(remaining), PlacePubSearch(remaining))

\* the dictionary of the general cascade, given the library match and
\* middle_parts
GeneralFields(parts, library, middle_parts) ==
    Publication([InitialResult EXCEPT
                    !.author  = Some(Strip(parts[1])),
                    !.library = library,
                    !.note    = Note(parts),
                    !.title   = Title(TitleMatch(middle_parts))],
                Remaining(middle_parts))

GeneralLibrary(parts, library) ==
    GeneralFields(parts, library, StripLibrary(MiddleParts(parts), library))

\* the dictionary returned by the general cascade (two segments or more)
GeneralEntry(entry, parts) == GeneralLibrary(parts, LibrarySearch(entry))

\* ParseParts without the early return for a line of one segment
ParsePartsGeneral(entry, parts) == Some(GeneralEntry(entry, parts))

\* the function after entry.split('. ')
ParseParts(entry, parts) ==
    IF Len(parts) < 2
    THEN Some([InitialResult EXCEPT !.author = Some(entry)])
    ELSE Some(GeneralEntry(entry, parts))

\* the function after entry = entry_text.strip()
ParseEntryText(entry) ==
    IF entry = <<>> \/ entry = AuthorEntries THEN None
    ELSE IF IsCrossReference(entry) THEN Some(CrossReference(entry))
    ELSE ParseParts(entry, Split(entry, PeriodSpace))

\* parse_bibliography_entry without the strip() of its first line
ParseUntrimmed(text) == ParseEntryText(text)

\* parse_bibliography_entry(entry_text): None, or Some(dictionary)
parse_bibliography_entry(text) == ParseEntryText(Strip(text))

----------------------------------------------------------------------------
(* Input lines.                                                            *)

\* the cross-reference example of the comment at tesseract.py:332
LivingstonLine ==
    <<"A","-","N","o","."," ","1"," ","(","p","s","e","u","d",".",")",".",
      " ","S","e","e"," ","L","i","v","i","n","g","s","t","o","n",","," ",
      "L","e","o","n"," ","R","a","y",".">>

\* a full citation: author, title, place, publisher, year, pages, library
SmithLine ==
    <<"S","m","i","t","h",","," ","J","o","h","n","."," ","A"," ","H","i",
      "s","t","o","r","y"," ","o","f"," ","T","e","x","a","s","."," ","A",
      "u","s","t","i","n",":"," ","J","o","n","e","s",","," ","1","9","5",
      "0","."," ","2","0","0"," ","p","."," ","T","X","U">>

\* " See " without a period
GoSeeSpotLine ==
    <<"G","o"," ","S","e","e"," ","S","p","o","t">>

\* two cross-reference separators within two periods
DoubleSeeLine ==
    <<"A","."," ","S","e","e"," ","B","."," ","S","e","e"," ","C">>

\* further lines: cross-references, header lines, padded lines and citations
\* with publication data in several shapes
ConcreteLines ==
    {LivingstonLine, SmithLine, GoSeeSpotLine, DoubleSeeLine,
     <<"S","m","i","t","h","."," ","S","e","e"," ","J","o","n","e","s",".">>,
     <<" "," ","S","m","i","t","h","."," ","S","e","e"," ","J","o","n","e",
       "s"," ","\t">>,
     <<"A","u","t","h","o","r"," ","E","n","t","r","i","e","s">>,
     <<" ","A","u","t","h","o","r"," ","E","n","t","r","i","e","s","\t">>,
     <<"A","u","t","h","o","r"," ","E","n","t","r","i","e","s",".">>,
     <<"\t"," ","\n">>,
     <<"A","u","."," ","T","h","e"," ","T","X"," ","S","t","o","r","y",".",
       " ","1","9","5","0">>,
     <<"S","m","i","t","h","."," ","T","i","t","l","e","."," ","A","u","s",
       "t","i","n",":"," ","J","o","n","e","s",","," ","1","9","5","0",".",
       " ","2","0","0"," ","p","."," ","1","9","5","1"," ","e","d">>,
     <<"D","o","e",","," ","J","."," ","P","o","e","m","s",".",".","."," ",
       "a","n","d"," ","m","o","r","e","."," ","N","Y",":"," ","H","o","l",
       "t",","," ","1","9","2","1",".","1","2","p",".",":","x">>,
     <<"R","o","e","."," ","T","a","l","e","s","."," ","D","a","l","l","a",
       "s",":"," "," ",","," ","1","9","0","0","."," ","3"," ","p","."," ",
       "1","9","0","0">>,
     <<"P","o","e","."," ","W","o","r","k","s","."," ","1","8","4","5",".",
       " ","1","2"," ","p","."," ","x",":"," ","y">>,
     <<"L","e","e","."," ","A","B","_","1"," ","a","n","d"," ","C","D",".",
       " ","A","B","C","D","E","."," ","1","9","5","0","1">>,
     <<"D","o","e",","," ","J","."," ","P","o","e","m","s","."," ","N","e",
       "w"," ","Y","o","r","k",":"," ","H","o","l","t",","," ","1","9","2",
       "1","."," ","4","5"," ","p",".">>,
     <<"K","a","y","."," ","O","d","e","."," ","U","T","9"," ","x","_","T",
       "X"," ","T","X",".">>,
     <<"R","a","y","."," ","O","d","e","s","."," ","1","2"," ","p",".","x">>}

\* the pieces the enumerated lines are built from
Tokens ==
    {<<"a">>, <<"T","X">>, <<".">>, <<" ">>, <<" ","S","e","e"," ">>,
     <<"1","9","5","0">>, <<":">>, <<",">>, <<"p",".">>}

\* the enumerated lines have at most MaxTokens pieces
MaxTokens == 4

RECURSIVE TokenLines(_)
TokenLines(n) ==
    IF n = 0 THEN {<<>>}
    ELSE LET shorter == TokenLines(n - 1)
         IN  shorter \cup {t \o l : t \in Tokens, l \in shorter}

Lines == ConcreteLines \cup TokenLines(MaxTokens)

----------------------------------------------------------------------------
(* A call of parse_bibliography_entry on one line.                         *)

\* int(s) raises ValueError
IntRaises(s) == s = <<>> \/ \E i \in 1..Len(s) : s[i] \notin DigitChars

\* one of the two int() calls raises, given the matches they read
IntCallRaises(pub_match, year_match) ==
    IF IsSome(pub_match) THEN IntRaises(Val(pub_match).year)
    ELSE IsSome(year_match) /\ IntRaises(Val(year_match))

RaisesOn(remaining) ==
    IntCallRaises(PubSearch(remaining), YearSearch(remaining))

\* the general cascade raises
RaisesInCascade(entry, parts) ==
    /\ Len(parts) >= 2
    /\ RaisesOn(Remaining(StripLibrary(MiddleParts(parts),
                                       LibrarySearch(entry))))

RaisesEntryText(entry) ==
    /\ entry # <<>>
    /\ entry # AuthorEntries
    /\ ~ IsCrossReference(entry)
    /\ RaisesInCascade(entry, Split(entry, PeriodSpace))

\* parse_bibliography_entry(text) raises: one of its int() calls does
Raises(text) == RaisesEntryText(Strip(text))

\* no tool has been invoked yet
NoReturn ==
    [kind |-> "none", processed_files |-> 0, total_entries |-> 0,
     failed_entries |-> 0, words |-> 0, closed |-> TRUE]

\* no database file exists yet
InitStore ==
    /\ db_exists = FALSE
    /\ bib_schema = "none"
    /\ bib_rows = <<>>
    /\ bib_seq = 0
    /\ source_line = <<>>
    /\ ret = NoReturn
    /\ json_rows = <<>>
    /\ folder_path = [exists |-> FALSE, files |-> <<>>]

\* no word-frequency database and no transcription folder exist yet
InitWords ==
    /\ word_db = FALSE
    /\ word_table = FALSE
    /\ word_freq = <<>>
    /\ txt_file_path = [exists |-> FALSE, readable |-> FALSE,
                        content |-> <<>>]
    /\ output_folder = FALSE
    /\ transcriptions = {}

\* no client runs
InitNoClient ==
    /\ client = "none"
    /\ client_pc = "none"
    /\ conversation_history = <<>>
    /\ tool_calls = <<>>
    /\ call_index = 0
    /\ in_flight = {}
    /\ turns = 0

InitParse ==
    /\ entry_text \in Lines
    /\ result = None
    /\ pc = "call"
    /\ InitStore
    /\ InitWords
    /\ InitNoClient

ParseEntry ==
    /\ pc = "call"
    /\ IF Raises(entry_text)
       THEN pc' = "raise" /\ result' = None
       ELSE pc' = "return" /\ result' = parse_bibliography_entry(entry_text)
    /\ UNCHANGED <<entry_text, store_vars, ret, json_vars, beside_store>>

NextParse == ParseEntry

SpecParse == InitParse /\ [][NextParse]_vars

----------------------------------------------------------------------------
(* The bibliography store and the tools that write it.  The created_at     *)
(* column is left out: no tool reads it.                                   *)

\* the row INSERT INTO bibliography makes of a parsed entry
Row(id, parsed_entry, text) ==
    [id         |-> id,
     author     |-> parsed_entry.author,
     title      |-> parsed_entry.title,
     note       |-> parsed_entry.note,
     year       |-> parsed_entry.year,
     place      |-> parsed_entry.place,
     publisher  |-> parsed_entry.publisher,
     pages      |-> parsed_entry.pages,
     library    |-> parsed_entry.library,
     full_entry |-> text]

\* InsertAccepted for an INSERT that fits the tables of both schemas
InsertAcceptedByBoth(schema) == schema \in {"text", "json"}

\* the INSERT of process_ground_truth_folder names the columns of the text
\* schema; against the JSON schema sqlite3 raises OperationalError
InsertAccepted(schema) == schema = "text"

\* sqlite3.connect(db_path) followed by CREATE TABLE IF NOT EXISTS
SchemaAfterCreate(schema) == IF schema = "none" THEN "text" ELSE schema

Message(kind) == [NoReturn EXCEPT !.kind = kind]

\* the outcome of an invocation that a failing statement took out of the
\* function body after sqlite3.connect and before conn.close()
Unclosed(message) == [message EXCEPT !.closed = FALSE]

\* create_bibliography_table(db_path)
CreateBibliographyTable ==
    /\ db_exists' = TRUE
    /\ bib_schema' = SchemaAfterCreate(bib_schema)
    /\ ret' = Message("table_created")
    /\ UNCHANGED <<bib_rows, bib_seq, source_line, parse_vars, json_vars,
                   beside_store>>

\* create_json_bibliography_table(db_path): DROP TABLE IF EXISTS, which
\* also forgets the AUTOINCREMENT counter, then CREATE TABLE
CreateJsonBibliographyTable ==
    /\ db_exists' = TRUE
    /\ bib_schema' = "json"
    /\ bib_rows' = <<>>
    /\ bib_seq' = 0
    /\ source_line' = <<>>
    /\ json_rows' = <<>>
    /\ ret' = Message("json_table_created")
    /\ UNCHANGED <<parse_vars, folder_path, beside_store>>

\* clear_bibliography(db_path)
ClearBibliography ==
    /\ IF ~ db_exists
       THEN /\ ret' = Message("database_not_found")
            /\ UNCHANGED <<bib_rows, source_line, json_rows>>
       ELSE IF bib_schema = "none"
       THEN /\ ret' = Message("table_does_not_exist")
            /\ UNCHANGED <<bib_rows, source_line, json_rows>>
       ELSE /\ bib_rows' = <<>>
            /\ source_line' = <<>>
            /\ json_rows' = <<>>
            /\ ret' = Message("deleted")
    /\ UNCHANGED <<db_exists, bib_schema, bib_seq, parse_vars, folder_path,
                   beside_store>>

\* the state process_ground_truth_folder carries through its loops
LoopStart ==
    [rows |-> bib_rows, seq |-> bib_seq, lines |-> source_line,
     total_entries |-> 0, processed_files |-> 0, failed_entries |-> 0,
     entry_text |-> entry_text, result |-> result, pc |-> pc,
     raised |-> FALSE]

\* Insert without the inner try: a rejected INSERT leaves the file's loop
InsertRaising(st, line, text, parsed_entry, schema) ==
    IF InsertAccepted(schema)
    THEN [st EXCEPT !.rows = Append(@, Row(st.seq + 1, parsed_entry, text)),
                    !.lines = Append(@, line),
                    !.seq = @ + 1,
                    !.total_entries = @ + 1]
    ELSE [st EXCEPT !.failed_entries = @ + 1, !.raised = TRUE]

\* Insert as INSERT OR REPLACE under the id handed out last
InsertReplacing(st, line, text, parsed_entry, schema) ==
    IF ~ InsertAccepted(schema)
    THEN [st EXCEPT !.failed_entries = @ + 1]
    ELSE IF Len(st.rows) = 0
    THEN [st EXCEPT !.rows = Append(@, Row(st.seq + 1, parsed_entry, text)),
                    !.lines = Append(@, line),
                    !.seq = @ + 1,
                    !.total_entries = @ + 1]
    ELSE [st EXCEPT !.rows[Len(st.rows)] = Row(st.seq, parsed_entry, text),
                    !.lines[Len(st.rows)] = line,
                    !.total_entries = @ + 1]

\* Insert into a table with a UNIQUE constraint on full_entry
InsertUnique(st, line, text, parsed_entry, schema) ==
    IF /\ InsertAccepted(schema)
       /\ \A k \in 1..Len(st.rows) : st.rows[k].full_entry # text
    THEN [st EXCEPT !.rows = Append(@, Row(st.seq + 1, parsed_entry, text)),
                    !.lines = Append(@, line),
                    !.seq = @ + 1,
                    !.total_entries = @ + 1]
    ELSE [st EXCEPT !.failed_entries = @ + 1]

\* the INSERT and the counter that follows it
Insert(st, line, text, parsed_entry, schema) ==
    IF InsertAccepted(schema)
    THEN [st EXCEPT !.rows = Append(@, Row(st.seq + 1, parsed_entry, text)),
                    !.lines = Append(@, line),
                    !.seq = @ + 1,
                    !.total_entries = @ + 1]
    ELSE [st EXCEPT !.failed_entries = @ + 1]

\* the inner loop body once parse_bibliography_entry returned
Parsed(st, line, text, parsed_entry, schema) ==
    IF ~ IsSome(parsed_entry)
    THEN [st EXCEPT !.entry_text = text, !.result = parsed_entry,
                    !.pc = "return"]
    ELSE Insert([st EXCEPT !.entry_text = text, !.result = parsed_entry,
                           !.pc = "return"],
                line, text, Val(parsed_entry), schema)

\* the inner loop body for entry_text, the trimmed file line
ProcessEntryText(st, line, text, schema) ==
    IF text = <<>> \/ text = AuthorEntries THEN st
    ELSE IF Raises(text)
    THEN [st EXCEPT !.entry_text = text, !.result = None,
                    !.pc = "raise", !.raised = TRUE]
    ELSE Parsed(st, line, text, parse_bibliography_entry(text), schema)

\* ProcessLine without the strip() of the list comprehension
ProcessLineUntrimmed(st, line, schema) ==
    ProcessEntryText(st, line, line, schema)

\* one pass of the inner loop for the file line `line`
ProcessLine(st, line, schema) ==
    ProcessEntryText(st, line, Strip(line), schema)

\* the inner loop over the lines of one file, left when a line raises.
\* (The state after a line is bound as an element of a singleton set, so
\* that it is computed once however often the rest of the loop reads it.)
RECURSIVE ProcessLines(_, _, _)
ProcessLines(st, lines, schema) ==
    IF Len(lines) = 0 \/ st.raised THEN st
    ELSE LET after == {ProcessLine(st, Head(lines), schema)}
         IN  CHOOSE done \in {ProcessLines(s, Tail(lines), schema) :
                                 s \in after} : TRUE

\* the try block of the outer loop is left by the exception
FileDone(done) ==
    IF done.raised THEN [done EXCEPT !.raised = FALSE]
    ELSE [done EXCEPT !.processed_files = @ + 1]

\* ProcessFile counting a file that cannot be read
ProcessFileCounted(st, file, schema) ==
    IF ~ file.readable THEN [st EXCEPT !.processed_files = @ + 1]
    ELSE FileDone(ProcessLines(st, Split(file.content, <<"\n">>), schema))

\* the body of the outer loop: a file that cannot be read, or whose
\* processing raises, is reported and not counted
ProcessFile(st, file, schema) ==
    IF ~ file.readable THEN st
    ELSE FileDone(ProcessLines(st, Split(file.content, <<"\n">>), schema))

\* the outer loop over the files
RECURSIVE ProcessFiles(_, _, _)
ProcessFiles(st, files, schema) ==
    IF Len(files) = 0 THEN st
    ELSE LET after == {ProcessFile(st, Head(files), schema)}
         IN  CHOOSE done \in {ProcessFiles(s, Tail(files), schema) :
                                 s \in after} : TRUE

\* glob found a file the first test of the loop would skip
NoTextFilesIgnored(txt_files) == FALSE

\* `if not txt_files`
NoTextFiles(txt_files) == Len(txt_files) = 0

\* process_ground_truth_folder(folder_path, db_path); folder.files are the
\* files glob finds, in the order it lists them
ProcessGroundTruthFolder(folder) ==
    /\ folder_path' = folder
    /\ UNCHANGED <<json_rows, beside_store>>
    /\ IF ~ folder.exists
       THEN /\ ret' = Message("folder_not_found")
            /\ UNCHANGED <<store_vars, parse_vars>>
       ELSE IF NoTextFiles(folder.files)
       THEN /\ db_exists' = TRUE
            /\ bib_schema' = SchemaAfterCreate(bib_schema)
            /\ ret' = Message("no_text_files")
            /\ UNCHANGED <<bib_rows, bib_seq, source_line, parse_vars>>
       ELSE \E done \in {ProcessFiles(LoopStart, folder.files,
                                     SchemaAfterCreate(bib_schema))} :
                /\ db_exists' = TRUE
                /\ bib_schema' = SchemaAfterCreate(bib_schema)
                /\ bib_rows' = done.rows
                /\ bib_seq' = done.seq
                /\ source_line' = done.lines
                /\ entry_text' = done.entry_text
                /\ result' = done.result
                /\ pc' = done.pc
                /\ ret' = [kind            |-> "processing_complete",
                           processed_files |-> done.processed_files,
                           total_entries   |-> done.total_entries,
                           failed_entries  |-> done.failed_entries,
                           words           |-> 0,
                           closed          |-> TRUE]

(* Ground-truth folders.                                                   *)

\* a header line, an empty line, a cross-reference and a padded citation
HeaderFile ==
    [readable |-> TRUE, content |->
        <<"A","u","t","h","o","r"," ","E","n","t","r","i","e","s","\n","\n",
          "S","m","i","t","h","."," ","S","e","e"," ","J","o","n","e","s",
          ".","\n"," "," ","A","u","."," ","T","h","e"," ","T","X"," ","S",
          "t","o","r","y","."," ","1","9","5","0"," ","\t","\n">>]

\* two lines without a final newline
SpotFile ==
    [readable |-> TRUE, content |->
        <<"G","o"," ","S","e","e"," ","S","p","o","t","\n","A","u","t","h",
          "o","r"," ","E","n","t","r","i","e","s">>]

\* a citation, a blank line and a bare name
PoeFile ==
    [readable |-> TRUE, content |->
        <<"P","o","e","."," ","W","o","r","k","s","."," ","N","Y",":"," ",
          "H","o","l","t",","," ","1","8","4","5",".","1","2"," ","p",".",
          ":","x","\n"," "," "," ","\n","K","a","y">>]

\* a *.txt entry that open() cannot read
UnreadableFile == [readable |-> FALSE, content |-> <<>>]

Folders ==
    {[exists |-> FALSE, files |-> <<>>],
     [exists |-> TRUE,  files |-> <<>>],
     [exists |-> TRUE,  files |-> <<HeaderFile>>],
     [exists |-> TRUE,  files |-> <<SpotFile>>],
     [exists |-> TRUE,  files |-> <<UnreadableFile, PoeFile>>],
     [exists |-> TRUE,  files |-> <<PoeFile, UnreadableFile, SpotFile>>]}

----------------------------------------------------------------------------
(* The JSON tool family, which keeps its rows in the same table.           *)

\* the row INSERT INTO bibliography makes of a JSON entry; of the thirteen
\* columns the model keeps those the searches read
JsonRow(id, entry, source_filename) ==
    [id          |-> id,
     lastname    |-> entry.lastname,
     title       |-> entry.title,
     publishyear |-> entry.publishyear,
     source_file |-> source_filename]

\* the state process_json_ground_truth carries through its loops
JsonLoopStart ==
    [rows |-> <<>>, total_entries |-> 0, processed_files |-> 0,
     failed_entries |-> 0]

\* the INSERT of one entry and the counter that follows it; an entry that
\* is no JSON object, or holds a value sqlite3 cannot bind, is rejected
JsonInsert(st, entry, source_filename) ==
    IF entry.insertable
    THEN [st EXCEPT !.rows = Append(@, JsonRow(Len(st.rows) + 1, entry,
                                              source_filename)),
                    !.total_entries = @ + 1]
    ELSE [st EXCEPT !.failed_entries = @ + 1]

\* the loop over data['entries']
RECURSIVE JsonEntries(_, _, _)
JsonEntries(st, entries, source_filename) ==
    IF Len(entries) = 0 THEN st
    ELSE JsonEntries(JsonInsert(st, Head(entries), source_filename),
                     Tail(entries), source_filename)

\* the body of the outer loop: a file json.load cannot read is reported and
\* not counted; one without an 'entries' list is counted and adds nothing
JsonFile(st, file) ==
    IF ~ file.readable THEN st
    ELSE IF ~ file.has_entries
    THEN [st EXCEPT !.processed_files = @ + 1]
    ELSE [JsonEntries(st, file.entries, file.name)
             EXCEPT !.processed_files = @ + 1]

\* the outer loop over the files
RECURSIVE JsonFiles(_, _)
JsonFiles(st, files) ==
    IF Len(files) = 0 THEN st
    ELSE JsonFiles(JsonFile(st, Head(files)), Tail(files))

\* process_json_ground_truth(json_folder, db_path): the table is dropped
\* and created anew before the folder is searched for files
ProcessJsonGroundTruth(folder) ==
    /\ folder_path' = folder
    /\ UNCHANGED <<parse_vars, beside_store>>
    /\ IF ~ folder.exists
       THEN /\ ret' = Message("json_folder_not_found")
            /\ UNCHANGED <<store_vars, json_rows>>
       ELSE /\ db_exists' = TRUE
            /\ bib_schema' = "json"
            /\ bib_rows' = <<>>
            /\ source_line' = <<>>
            /\ IF Len(folder.files) = 0
               THEN /\ json_rows' = <<>>
                    /\ bib_seq' = 0
                    /\ ret' = Message("no_json_files")
               ELSE LET done == JsonFiles(JsonLoopStart, folder.files)
                    IN  /\ json_rows' = done.rows
                        /\ bib_seq' = Len(done.rows)
                        /\ ret' = [kind |-> "json_processing_complete",
                                   processed_files |-> done.processed_files,
                                   total_entries   |-> done.total_entries,
                                   failed_entries  |-> done.failed_entries,
                                   words           |-> 0,
                                   closed          |-> TRUE]

\* clear_json_bibliography(db_path): DROP TABLE IF EXISTS and no CREATE
ClearJsonBibliography ==
    /\ IF ~ db_exists
       THEN /\ ret' = Message("database_not_found")
            /\ UNCHANGED <<store_vars, json_rows>>
       ELSE /\ bib_schema' = "none"
            /\ bib_rows' = <<>>
            /\ source_line' = <<>>
            /\ json_rows' = <<>>
            /\ bib_seq' = 0
            /\ ret' = IF bib_schema # "none"
                      THEN Message("json_cleared")
                      ELSE Message("json_table_did_not_exist")
            /\ UNCHANGED db_exists
    /\ UNCHANGED <<parse_vars, folder_path, beside_store>>

(* JSON folders.                                                           *)

DoeEntry ==
    [insertable |-> TRUE, lastname |-> "Doe", title |-> "Poems",
     publishyear |-> 1921]

\* an entry without a year
RoeEntry ==
    [insertable |-> TRUE, lastname |-> "Roe", title |-> "Tales",
     publishyear |-> None]

\* an element of the entries list that is a string
StringEntry ==
    [insertable |-> FALSE, lastname |-> None, title |-> None,
     publishyear |-> None]

DoeJson ==
    [readable |-> TRUE, has_entries |-> TRUE, name |-> "doe.json",
     entries |-> <<DoeEntry, StringEntry, RoeEntry>>]

\* a JSON object without the 'entries' key
BareJson ==
    [readable |-> TRUE, has_entries |-> FALSE, name |-> "bare.json",
     entries |-> <<>>]

\* a *.json file that is not JSON
BrokenJson ==
    [readable |-> FALSE, has_entries |-> FALSE, name |-> "broken.json",
     entries |-> <<>>]

JsonFolders ==
    {[exists |-> FALSE, files |-> <<>>],
     [exists |-> TRUE,  files |-> <<>>],
     [exists |-> TRUE,  files |-> <<BrokenJson, DoeJson>>],
     [exists |-> TRUE,  files |-> <<BareJson>>]}

----------------------------------------------------------------------------
(* The tools that read the bibliography table.                             *)

\* the rows of the table, whatever its schema
TableRows == IF bib_schema = "json" THEN json_rows ELSE bib_rows

\* what a tool returns whose SELECT names columns of the schema `columns`
\* ("any": columns both schemas have): the not-found message, the message
\* of the except clause, the no-entries message or the formatted rows
SelectKind(columns) ==
    IF ~ db_exists THEN "database_not_found"
    ELSE IF bib_schema = "none" \/ columns \notin {"any", bib_schema}
    THEN "error"
    ELSE IF Len(TableRows) = 0 THEN "no_entries"
    ELSE "found"

\* a statistics tool: the counts, also of an empty table
StatsKind(columns) ==
    IF SelectKind(columns) \in {"no_entries", "found"} THEN "stats"
    ELSE SelectKind(columns)

\* the outcome of a reading tool: conn.close() follows fetchall(), so the
\* except clause of a failing SELECT returns without it
AfterSelect(kind) ==
    IF kind = "error" THEN Unclosed(Message(kind)) ELSE Message(kind)

\* the tool returns and leaves the store as it is
Returns(message) ==
    /\ ret' = message
    /\ UNCHANGED <<parse_vars, store_vars, json_vars, beside_store>>

\* query_bibliography(query, db_path): without a search term the SELECT
\* names only created_at
QueryBibliography(has_terms) ==
    Returns(AfterSelect(SelectKind(IF has_terms THEN "text" ELSE "any")))

\* get_bibliography_stats(db_path)
GetBibliographyStats ==
    Returns([AfterSelect(StatsKind("text"))
                EXCEPT !.total_entries = Len(TableRows)])

\* search_by_topic(topic, db_path)
SearchByTopic == Returns(AfterSelect(SelectKind("text")))

\* display_all_bibliography_entries(db_path, format)
DisplayAllBibliographyEntries == Returns(AfterSelect(SelectKind("text")))

\* query_json_bibliography(query, db_path): without a search term the
\* SELECT names only created_at, and formatting a row of the text schema,
\* after conn.close(), reads a twelfth column it does not have
QueryJsonBibliography(has_terms) ==
    Returns(IF has_terms THEN AfterSelect(SelectKind("json"))
            ELSE IF SelectKind("any") = "found" /\ bib_schema = "text"
            THEN Message("error")
            ELSE AfterSelect(SelectKind("any")))

\* search_by_author(author_name, db_path)
SearchByAuthor == Returns(AfterSelect(SelectKind("json")))

\* search_by_year_range(start_year, end_year, db_path)
SearchByYearRange == Returns(AfterSelect(SelectKind("json")))

\* get_json_bibliography_stats(db_path)
GetJsonBibliographyStats ==
    Returns([AfterSelect(StatsKind("json"))
                EXCEPT !.total_entries = Len(TableRows)])

\* display_all_json_bibliography(db_path, format, limit)
DisplayAllJsonBibliography == Returns(AfterSelect(SelectKind("json")))

\* a folder is ingested only while AUTOINCREMENT has handed out at most
\* MaxIds ids
MaxIds == 4

Init ==
    /\ entry_text = <<>>
    /\ result = None
    /\ pc = "call"
    /\ InitStore
    /\ InitWords
    /\ InitNoClient

Next ==
    \/ CreateBibliographyTable
    \/ CreateJsonBibliographyTable
    \/ ClearBibliography
    \/ \E folder \in Folders :
          /\ bib_seq <= MaxIds
          /\ ProcessGroundTruthFolder(folder)
    \/ \E folder \in JsonFolders : ProcessJsonGroundTruth(folder)
    \/ ClearJsonBibliography
    \/ \E has_terms \in BOOLEAN : QueryBibliography(has_terms)
    \/ GetBibliographyStats
    \/ SearchByTopic
    \/ DisplayAllBibliographyEntries
    \/ \E has_terms \in BOOLEAN : QueryJsonBibliography(has_terms)
    \/ SearchByAuthor
    \/ SearchByYearRange
    \/ GetJsonBibliographyStats
    \/ DisplayAllJsonBibliography

Spec == Init /\ [][Next]_vars

----------------------------------------------------------------------------
(* The word-frequency tools and the OCR tools.  They keep their own        *)
(* database file (word_freq.db) and a folder of transcriptions.            *)

UpperLetters ==
    <<"A","B","C","D","E","F","G","H","I","J","K","L","M",
      "N","O","P","Q","R","S","T","U","V","W","X","Y","Z">>

LowerLetters ==
    <<"a","b","c","d","e","f","g","h","i","j","k","l","m",
      "n","o","p","q","r","s","t","u","v","w","x","y","z">>

\* str.lower() of one character
LowerChar(c) ==
    IF c \in UpperChars
    THEN LowerLetters[CHOOSE i \in 1..26 : UpperLetters[i] = c]
    ELSE c

\* str.lower()
Lower(s) == [i \in 1..Len(s) |-> LowerChar(s[i])]

\* re.findall(r'\w+', text): the maximal runs of word characters, in order
RECURSIVE FindAllWords(_)
FindAllWords(text) ==
    IF Len(text) = 0 THEN <<>>
    ELSE IF Head(text) \notin WordChars THEN FindAllWords(Tail(text))
    ELSE <<SubSeq(text, 1, RunEnd(text, 1, WordChars) - 1)>>
         \o FindAllWords(From(text, RunEnd(text, 1, WordChars)))

\* the upsert with ON CONFLICT DO UPDATE replaced by a plain replace
UpsertReplacing(freq, word) ==
    IF word \in DOMAIN freq THEN [freq EXCEPT ![word] = 1]
    ELSE freq @@ (word :> 1)

\* INSERT ... VALUES (?, 1) ON CONFLICT(word) DO UPDATE SET count = count + 1
Upsert(freq, word) ==
    IF word \in DOMAIN freq THEN [freq EXCEPT ![word] = @ + 1]
    ELSE freq @@ (word :> 1)

\* the loop over the words
RECURSIVE UpsertAll(_, _)
UpsertAll(freq, words) ==
    IF Len(words) = 0 THEN freq
    ELSE UpsertAll(Upsert(freq, Head(words)), Tail(words))

\* the tool returns a message that carries a number of words
Counted(kind, n) == [Message(kind) EXCEPT !.words = n]

\* a tool of this family returns, or raises (kind "raised"), and leaves
\* the tables and the transcriptions as they are
ReturnsWords(message) ==
    /\ ret' = message
    /\ UNCHANGED <<word_table, word_freq, txt_file_path, ocr_vars,
                   beside_words>>

\* store_word_frequencies(txt_file_path, db_path): open() and read() are
\* outside any try, so a path that cannot be read raises
StoreWordFrequencies(file) ==
    /\ txt_file_path' = file
    /\ UNCHANGED <<ocr_vars, beside_words>>
    /\ IF ~ file.exists
       THEN /\ ret' = Message("file_not_found")
            /\ UNCHANGED <<word_db, word_table, word_freq>>
       ELSE IF ~ file.readable
       THEN /\ ret' = Message("raised")
            /\ UNCHANGED <<word_db, word_table, word_freq>>
       ELSE /\ word_db' = TRUE
            /\ word_table' = TRUE
            /\ word_freq' = UpsertAll(word_freq,
                                      FindAllWords(Lower(file.content)))
            /\ ret' = Counted("stored",
                              Len(FindAllWords(Lower(file.content))))

\* query_word_frequency(word, db_path): sqlite3.connect creates the file,
\* and the SELECT is outside any try and before conn.close()
QueryWordFrequency(word) ==
    /\ word_db' = TRUE
    /\ ReturnsWords(IF ~ word_table THEN Unclosed(Message("raised"))
                    ELSE IF Lower(word) \in DOMAIN word_freq
                    THEN Counted("appears", word_freq[Lower(word)])
                    ELSE Message("does_not_appear"))

\* the rows of SELECT ... ORDER BY count DESC LIMIT limit: how many
Listed(limit) ==
    IF limit < 0 \/ limit > Cardinality(DOMAIN word_freq)
    THEN Cardinality(DOMAIN word_freq)
    ELSE limit

\* get_all_word_frequencies(db_path, limit): the SELECT is outside any try
\* and before conn.close()
GetAllWordFrequencies(limit) ==
    /\ UNCHANGED word_db
    /\ ReturnsWords(IF ~ word_db THEN Message("database_not_found")
                    ELSE IF ~ word_table THEN Unclosed(Message("raised"))
                    ELSE IF Listed(limit) = 0
                    THEN Message("database_is_empty")
                    ELSE Counted("word_frequencies", Listed(limit)))

\* clear_word_frequencies(db_path)
ClearWordFrequencies ==
    /\ IF ~ word_db
       THEN /\ ret' = Message("database_not_found")
            /\ UNCHANGED word_freq
       ELSE IF ~ word_table
       THEN /\ ret' = Message("table_does_not_exist")
            /\ UNCHANGED word_freq
       ELSE /\ word_freq' = <<>>
            /\ ret' = Message("deleted")
    /\ UNCHANGED <<word_db, word_table, txt_file_path, ocr_vars,
                   beside_words>>

\* ocr_image_to_text(image_path, output_folder): the folder is made before
\* the image is opened
OcrImageToText(image) ==
    /\ UNCHANGED <<word_vars, beside_words>>
    /\ IF ~ image.exists
       THEN /\ ret' = Message("image_not_found")
            /\ UNCHANGED ocr_vars
       ELSE /\ output_folder' = TRUE
            /\ IF image.readable
               THEN /\ transcriptions' = transcriptions \cup {image.stem}
                    /\ ret' = Message("transcription_saved")
               ELSE /\ ret' = Message("error_processing")
                    /\ UNCHANGED transcriptions

\* the images of a folder that Image.open and pytesseract can process
Processed(images) == {k \in 1..Len(images) : images[k].readable}

\* batch_ocr_folder(image_folder, output_folder)
BatchOcrFolder(folder) ==
    /\ UNCHANGED <<word_vars, beside_words>>
    /\ IF ~ folder.exists
       THEN /\ ret' = Message("image_folder_not_found")
            /\ UNCHANGED ocr_vars
       ELSE /\ output_folder' = TRUE
            /\ transcriptions' = transcriptions \cup
                  {folder.images[k].stem : k \in Processed(folder.images)}
            /\ ret' = [Message("batch_completed") EXCEPT
                          !.processed_files =
                              Cardinality(Processed(folder.images)),
                          !.failed_entries = Len(folder.images) -
                              Cardinality(Processed(folder.images))]

(* Text files, words, images.                                              *)

\* A path without a file, a directory, an empty file and two texts.
TxtFiles ==
    {[exists |-> FALSE, readable |-> FALSE, content |-> <<>>],
     [exists |-> TRUE,  readable |-> FALSE, content |-> <<>>],
     [exists |-> TRUE,  readable |-> TRUE,  content |-> <<>>],
     [exists |-> TRUE,  readable |-> TRUE,  content |->
        <<"T","h","e"," ","t","h","e","\n","C","a","t">>],
     [exists |-> TRUE,  readable |-> TRUE,  content |->
        <<"c","a","t","_","1","-","T","H","E",".">>]}

QueryWords ==
    {<<"T","h","e">>, <<"c","a","t","_","1">>, <<"d","o","g">>}

Limits == {0, 1, 20}

Images ==
    {[exists |-> FALSE, readable |-> FALSE, stem |-> "none"],
     [exists |-> TRUE,  readable |-> FALSE, stem |-> "blank"],
     [exists |-> TRUE,  readable |-> TRUE,  stem |-> "Bib1"]}

ImageFolders ==
    {[exists |-> FALSE, images |-> <<>>],
     [exists |-> TRUE,  images |-> <<>>],
     [exists |-> TRUE,  images |->
        <<[exists |-> TRUE, readable |-> TRUE,  stem |-> "Bib2"],
          [exists |-> TRUE, readable |-> FALSE, stem |-> "blank"]>>]}

\* a file is stored only while no word has been counted more than
\* MaxCount times
MaxCount == 3

NextWords ==
    \/ \E file \in TxtFiles :
          /\ \A w \in DOMAIN word_freq : word_freq[w] <= MaxCount
          /\ StoreWordFrequencies(file)
    \/ \E word \in QueryWords : QueryWordFrequency(word)
    \/ \E limit \in Limits : GetAllWordFrequencies(limit)
    \/ ClearWordFrequencies
    \/ \E image \in Images : OcrImageToText(image)
    \/ \E folder \in ImageFolders : BatchOcrFolder(folder)

SpecWords == Init /\ [][NextWords]_vars

----------------------------------------------------------------------------
(* The chat clients: basic_client.main, simple_client.main and             *)
(* TerminalMCPClient.chat_loop with process_query.  Each is one coroutine; *)
(* client_pc names the await or input() it stands at:                      *)
(*   "input"      input() at the head of the chat loop                     *)
(*   "llm"        the first chat.completions.create                        *)
(*   "tool_calls" the head of the loop over the requested tool calls       *)
(*   "awaiting"   session.call_tool                                        *)
(*   "final_llm"  the chat.completions.create after the tool calls         *)
(*   "exited"     the loop was left by quit                                *)
(*   "crashed"    an exception left main()                                 *)

Clients == {"basic_client", "simple_client", "terminal_client"}

\* the clients that keep the conversation
KeepsConversation == client \in {"simple_client", "terminal_client"}

UserMessage == [role |-> "user", calls |-> <<>>, id |-> "", error |-> FALSE]

\* an assistant message; calls are the ids of its tool_calls
AssistantMessage(calls) ==
    [role |-> "assistant", calls |-> calls, id |-> "", error |-> FALSE]

\* a tool-role message for the tool call id
ToolMessage(id, error) ==
    [role |-> "tool", calls |-> <<>>, id |-> id, error |-> error]

\* the ids of the requested tool calls
CallIds(calls) == [k \in 1..Len(calls) |-> calls[k].id]

\* the coroutine goes back to input()
BackToInput ==
    /\ client_pc' = "input"
    /\ tool_calls' = <<>>
    /\ call_index' = 0

\* an exception nobody catches ends main()
Crash ==
    /\ client_pc' = "crashed"
    /\ tool_calls' = <<>>
    /\ call_index' = 0

\* an exception raised while a query is processed: chat_loop of
\* terminal_client catches it, simple_client has no handler
Raise == IF client = "terminal_client" THEN BackToInput ELSE Crash

\* input() returns; user_input is "quit", "empty", "tool" (a request in
\* which basic_client finds the keywords of a tool) or "text"
ReadInput(user_input) ==
    /\ client_pc = "input"
    /\ turns' = turns + 1
    /\ UNCHANGED <<client, in_flight, beside_client>>
    /\ IF user_input = "quit"
       THEN /\ client_pc' = "exited"
            /\ UNCHANGED <<conversation_history, tool_calls, call_index>>
       ELSE IF user_input = "empty" /\ client # "simple_client"
       THEN UNCHANGED <<client_pc, conversation_history, tool_calls,
                        call_index>>
       ELSE IF user_input = "tool" /\ client = "basic_client"
       THEN /\ client_pc' = "tool_calls"
            /\ tool_calls' = <<[id |-> "call_1", known |-> TRUE,
                                args_ok |-> TRUE]>>
            /\ call_index' = 1
            /\ UNCHANGED conversation_history
       ELSE /\ client_pc' = "llm"
            /\ conversation_history' =
                  IF KeepsConversation
                  THEN Append(conversation_history, UserMessage)
                  ELSE conversation_history
            /\ UNCHANGED <<tool_calls, call_index>>

\* the first chat.completions.create returns or raises.  basic_client
\* catches the exception and prints its help text; chat_loop catches it;
\* simple_client does not.
LlmResponds(response) ==
    /\ client_pc = "llm"
    /\ UNCHANGED <<client, in_flight, turns, beside_client>>
    /\ IF response.kind = "error"
       THEN /\ IF client = "simple_client" THEN Crash ELSE BackToInput
            /\ UNCHANGED conversation_history
       ELSE IF response.kind = "content" \/ client = "basic_client"
       THEN /\ BackToInput
            /\ conversation_history' =
                  IF KeepsConversation
                  THEN Append(conversation_history, AssistantMessage(<<>>))
                  ELSE conversation_history
       ELSE /\ client_pc' = "tool_calls"
            /\ tool_calls' = response.calls
            /\ call_index' = 1
            /\ conversation_history' =
                  IF client = "terminal_client"
                  THEN Append(conversation_history,
                              AssistantMessage(CallIds(response.calls)))
                  ELSE conversation_history

\* the loop over message.tool_calls is through
ToolCallsDone ==
    /\ client_pc = "tool_calls"
    /\ call_index > Len(tool_calls)
    /\ client_pc' = "final_llm"
    /\ UNCHANGED <<client, conversation_history, tool_calls, call_index,
                   in_flight, turns, beside_client>>

\* json.loads of the arguments raises
BadArguments ==
    /\ client_pc = "tool_calls"
    /\ call_index <= Len(tool_calls)
    /\ ~ tool_calls[call_index].args_ok
    /\ Raise
    /\ UNCHANGED <<client, conversation_history, in_flight, turns,
                   beside_client>>

\* terminal_client: the tool name is not in available_tools; the loop
\* goes on and nothing is recorded
UnknownTool ==
    /\ client_pc = "tool_calls"
    /\ client = "terminal_client"
    /\ call_index <= Len(tool_calls)
    /\ tool_calls[call_index].args_ok
    /\ ~ tool_calls[call_index].known
    /\ call_index' = call_index + 1
    /\ UNCHANGED <<client, client_pc, conversation_history, tool_calls,
                   in_flight, turns, beside_client>>

\* the tool call is in the loop's hands
CallReady ==
    /\ client_pc = "tool_calls"
    /\ call_index <= Len(tool_calls)
    /\ tool_calls[call_index].args_ok
    /\ (client = "terminal_client" => tool_calls[call_index].known)

\* session.call_tool is started and the loop goes on without awaiting it
StartToolCallUnawaited ==
    /\ CallReady
    /\ in_flight' = in_flight \cup {tool_calls[call_index].id}
    /\ call_index' = call_index + 1
    /\ UNCHANGED <<client, client_pc, conversation_history, tool_calls,
                   turns, beside_client>>

\* await session.call_tool(...): the coroutine waits for the tool
StartToolCall ==
    /\ CallReady
    /\ in_flight' = in_flight \cup {tool_calls[call_index].id}
    /\ client_pc' = "awaiting"
    /\ UNCHANGED <<client, conversation_history, tool_calls, call_index,
                   turns, beside_client>>

\* session.call_tool returns a result or raises
ToolReturns(raises) ==
    /\ client_pc = "awaiting"
    /\ in_flight' = in_flight \ {tool_calls[call_index].id}
    /\ UNCHANGED <<client, turns, beside_client>>
    /\ IF client = "terminal_client"
       THEN /\ conversation_history' =
                  Append(conversation_history,
                         ToolMessage(tool_calls[call_index].id, raises))
            /\ client_pc' = "tool_calls"
            /\ call_index' = call_index + 1
            /\ UNCHANGED tool_calls
       ELSE IF client = "basic_client"
       THEN BackToInput /\ UNCHANGED conversation_history
       ELSE IF raises
       THEN Crash /\ UNCHANGED conversation_history
       ELSE /\ conversation_history' =
                  Append(conversation_history, AssistantMessage(<<>>))
            /\ client_pc' = "final_llm"
            /\ UNCHANGED <<tool_calls, call_index>>

\* the chat.completions.create after the tool calls returns or raises
FinalLlmResponds(raises) ==
    /\ client_pc = "final_llm"
    /\ UNCHANGED <<client, in_flight, turns, beside_client>>
    /\ IF raises
       THEN Raise /\ UNCHANGED conversation_history
       ELSE /\ BackToInput
            /\ conversation_history' =
                  Append(conversation_history, AssistantMessage(<<>>))

(* What the user types and what the LLM answers.                           *)

UserInputs == {"quit", "empty", "tool", "text"}

GoodCall(id) == [id |-> id, known |-> TRUE, args_ok |-> TRUE]

\* a tool name that is not in available_tools
UnknownCall(id) == [id |-> id, known |-> FALSE, args_ok |-> TRUE]

\* arguments that are not JSON
BadCall(id) == [id |-> id, known |-> TRUE, args_ok |-> FALSE]

ErrorResponse == [kind |-> "error", calls |-> <<>>]

\* simple_client reads one tool call out of a "USE_TOOL:" answer;
\* the other clients get message.tool_calls
LlmResponses ==
    {ErrorResponse, [kind |-> "content", calls |-> <<>>]}
    \cup {[kind |-> "tool_calls", calls |-> calls] :
            calls \in {<<GoodCall("call_1")>>, <<BadCall("call_1")>>}}
    \cup {[kind |-> "tool_calls", calls |-> calls] :
            calls \in IF client = "simple_client" THEN {}
                      ELSE {<<GoodCall("call_1"), GoodCall("call_2")>>,
                            <<UnknownCall("call_1"), GoodCall("call_2")>>,
                            <<GoodCall("call_1"), BadCall("call_2")>>}}

\* input() is answered at most MaxTurns times
MaxTurns == 2

InitClient ==
    /\ entry_text = <<>>
    /\ result = None
    /\ pc = "call"
    /\ InitStore
    /\ InitWords
    /\ client \in Clients
    /\ client_pc = "input"
    /\ conversation_history = <<>>
    /\ tool_calls = <<>>
    /\ call_index = 0
    /\ in_flight = {}
    /\ turns = 0

NextClient ==
    \/ \E user_input \in UserInputs :
          /\ turns < MaxTurns
          /\ ReadInput(user_input)
    \/ \E response \in LlmResponses : LlmResponds(response)
    \/ ToolCallsDone
    \/ BadArguments
    \/ UnknownTool
    \/ StartToolCall
    \/ \E raises \in BOOLEAN : ToolReturns(raises)
    \/ \E raises \in BOOLEAN : FinalLlmResponds(raises)

SpecClient == InitClient /\ [][NextClient]_vars

----------------------------------------------------------------------------
(* Properties of parse_bibliography_entry, checked under SpecParse unless  *)
(* stated otherwise.                                                       *)

\* t is l without its leading and trailing whitespace
IsTrimOf(t, l) ==
    \E i \in 1..(Len(l) + 1) : \E j \in (i - 1)..Len(l) :
        /\ t = SubSeq(l, i, j)
        /\ \A k \in 1..(i - 1) : l[k] \in WhiteSpace
        /\ \A k \in (j + 1)..Len(l) : l[k] \in WhiteSpace
        /\ (i <= j => l[i] \notin WhiteSpace /\ l[j] \notin WhiteSpace)

\* t occurs in l as a contiguous substring
IsSubstring(t, l) ==
    \E i \in 1..(Len(l) + 1) : StartsWithAt(l, i, t)

\* the call returned a dictionary
Returned == pc = "return" /\ IsSome(result)

\* the call returned from the general cascade: at least two segments and
\* not a cross-reference
ReturnedGeneral ==
    /\ Returned
    /\ ~ IsCrossReference(Strip(entry_text))
    /\ Len(Split(Strip(entry_text), PeriodSpace)) >= 2

\* C1: for every line that contains ". See " and at most two periods the
\* result has author = the text before ". See " (compared up to the
\* whitespace around it), note = "See " + the text after it, and every
\* other field null (also when ". See " occurs twice).
C1_CrossReference ==
    (/\ pc = "return"
     /\ Contains(Strip(entry_text), SeeSeparator)
     /\ Count(Strip(entry_text), ".") <= 2)
    => /\ IsSome(result)
       /\ IsSome(Val(result).author)
       /\ IsTrimOf(Val(Val(result).author),
                   SubSeq(Strip(entry_text), 1,
                          Find(Strip(entry_text), SeeSeparator) - 1))
       /\ Val(result) =
             [InitialResult EXCEPT
                 !.author = Val(result).author,
                 !.note = Some(SeePrefix \o From(Strip(entry_text),
                              Find(Strip(entry_text), SeeSeparator) + 6))]

\* C2: "A-No. 1 (pseud.). See Livingston, Leon Ray." gives author
\* "A-No. 1 (pseud.)", note "See Livingston, Leon Ray." and every other
\* field null.
C2_Livingston ==
    (pc = "return" /\ entry_text = LivingstonLine)
    => result = Some([InitialResult EXCEPT
                         !.author = Some(SubSeq(LivingstonLine, 1, 16)),
                         !.note   = Some(From(LivingstonLine, 19))])

\* C3: for every non-skipped line without the separator ". " the result
\* has author = the trimmed line and every other field null, also when
\* the line contains " See " (as "Go See Spot" does).
C3_NoSeparator ==
    (Returned /\ ~ Contains(Strip(entry_text), PeriodSpace))
    => result = Some([InitialResult EXCEPT
                         !.author = Some(Strip(entry_text))])

\* C4: "Smith, John. A History of Texas. Austin: Jones, 1950. 200 p. TXU"
\* gives place "Austin", publisher "Jones", year 1950 and pages "200 p.".
C4_Smith ==
    (pc = "return" /\ entry_text = SmithLine)
    => /\ IsSome(result)
       /\ Val(result).place = Some(<<"A","u","s","t","i","n">>)
       /\ Val(result).publisher = Some(<<"J","o","n","e","s">>)
       /\ Val(result).year = Some(1950)
       /\ Val(result).pages = Some(<<"2","0","0"," ","p",".">>)

\* s[i..i+k-1] is 2 to 4 uppercase letters with no character of the class
\* bound directly before or after it
IsCodeAt(s, i, k, bound) ==
    /\ i + k - 1 <= Len(s)
    /\ \A j \in i..(i + k - 1) : s[j] \in UpperChars
    /\ (i > 1 => s[i - 1] \notin bound)
    /\ (i + k <= Len(s) => s[i + k] \notin bound)

\* the first such token of s, or None
FirstCode(s, bound) ==
    LET hits == {h \in (1..Len(s)) \X (2..4) : IsCodeAt(s, h[1], h[2], bound)}
        first == CHOOSE h \in hits : \A g \in hits : h[1] <= g[1]
    IN  IF hits = {} THEN None
        ELSE Some(SubSeq(s, first[1], first[1] + first[2] - 1))

\* C5 as stated: in the general cascade library is the first token of the
\* line made of 2 to 4 uppercase letters bounded by non-letter characters,
\* null when there is none; "TXU" for the Smith line.
C5_LibraryNonLetter ==
    ReturnedGeneral
    => /\ Val(result).library =
              FirstCode(entry_text, UpperChars \cup LowerChars)
       /\ (entry_text = SmithLine
              => Val(result).library = Some(<<"T","X","U">>))

\* C5 amended: in the general cascade library is the first token of the
\* line made of 2 to 4 uppercase letters that has no letter, digit or
\* underscore directly before or after it, null when there is none; "TXU"
\* for the Smith line.
C5_Library ==
    ReturnedGeneral
    => /\ Val(result).library = FirstCode(entry_text, WordChars)
       /\ (entry_text = SmithLine
              => Val(result).library = Some(<<"T","X","U">>))

\* a general-cascade line whose first uppercase pair next to a digit or
\* an underscore is passed over for a later code
C5_Witness ==
    /\ ReturnedGeneral
    /\ IsSome(Val(result).library)
    /\ FirstCode(entry_text, UpperChars \cup LowerChars)
          # FirstCode(entry_text, WordChars)

\* the keys of the dictionary parse_bibliography_entry returns
ResultKeys ==
    {"author", "title", "note", "year", "place", "publisher", "pages",
     "library"}

\* every stored row has a non-empty full_entry, the trimmed file line
RowsKeepTrimmedLine ==
    \A k \in 1..Len(bib_rows) :
        /\ bib_rows[k].full_entry # <<>>
        /\ IsTrimOf(bib_rows[k].full_entry, source_line[k])

\* C6 as stated (under Spec): every non-null result carries a full_entry
\* field, non-empty and equal to the trimmed input line, and every row
\* stored by process_ground_truth_folder has full_entry equal to the
\* trimmed source line.
C6_ResultFullEntry ==
    /\ Returned
          => /\ "full_entry" \in DOMAIN Val(result)
             /\ Val(result).full_entry # <<>>
             /\ IsTrimOf(Val(result).full_entry, entry_text)
    /\ RowsKeepTrimmedLine

\* C6 amended (under Spec): a non-null result has the eight parsed fields
\* and no full_entry; process_ground_truth_folder adds it, and every row
\* it stores has a non-empty full_entry equal to the trimmed source line.
C6_FullEntry ==
    /\ Returned => DOMAIN Val(result) = ResultKeys
    /\ RowsKeepTrimmedLine

\* a row was stored from a line that had whitespace to trim
C6_Witness ==
    /\ Returned
    /\ \E k \in 1..Len(bib_rows) : bib_rows[k].full_entry # source_line[k]

\* C7: the function returns null exactly when the trimmed line is empty or
\* is "Author Entries"; for every other line it returns a record.
C7_NullExactlyForSkipped ==
    pc # "call"
    => /\ pc = "return"
       /\ result = None <=> \/ IsTrimOf(<<>>, entry_text)
                             \/ IsTrimOf(AuthorEntries, entry_text)

\* null was returned for a header line that had whitespace around it
C7_Witness ==
    /\ pc = "return"
    /\ result = None
    /\ entry_text # AuthorEntries
    /\ IsTrimOf(AuthorEntries, entry_text)

\* a field holds null or a string
IsOptionalText(field) ==
    \/ field = None
    \/ /\ Len(field) = 1
       /\ DOMAIN field[1] = 1..Len(field[1])
       /\ \A i \in 1..Len(field[1]) : field[1][i] \in STRING

\* C8: the function never raises: it returns null or a record in which
\* each field is null or a value of its declared type.
C8_NeverRaises ==
    /\ pc # "raise"
    /\ Returned
          => /\ \A key \in ResultKeys \ {"year"} :
                   IsOptionalText(Val(result)[key])
             /\ \/ Val(result).year = None
                \/ /\ Len(Val(result).year) = 1
                   /\ Val(result).year[1] \in 0..9999

\* a year was converted with int()
C8_Witness ==
    /\ Returned
    /\ IsSome(Val(result).year)
    /\ IsSome(Val(result).pages)

\* C9: no field is fabricated: each non-null text field is a contiguous
\* substring of the trimmed line, and a non-null year is the value of a
\* four-digit substring of it.
C9_NoFabrication ==
    Returned
    => /\ \A key \in ResultKeys \ {"year"} :
             IsSome(Val(result)[key])
                => IsSubstring(Val(Val(result)[key]), Strip(entry_text))
       /\ IsSome(Val(result).year)
             => \E i \in 1..Len(Strip(entry_text)) :
                   /\ FourDigitsAt(Strip(entry_text), i)
                   /\ IntOf(SubSeq(Strip(entry_text), i, i + 3))
                         = Val(Val(result).year)

----------------------------------------------------------------------------
(* Properties of process_ground_truth_folder, checked under Spec.          *)

\* the inner loop reaches parse_bibliography_entry for this file line
IsCandidate(line) == Strip(line) # <<>> /\ Strip(line) # AuthorEntries

\* the candidate lines of the readable files, in the order of the loops
RECURSIVE CandidateLines(_)
CandidateLines(files) ==
    IF Len(files) = 0 THEN <<>>
    ELSE (IF Head(files).readable
          THEN SelectSeq(Split(Head(files).content, <<"\n">>), IsCandidate)
          ELSE <<>>) \o CandidateLines(Tail(files))

\* the files read without error
ReadableFiles(files) == {k \in 1..Len(files) : files[k].readable}

\* the rows the step added to the table
RowsAdded == Len(bib_rows') - Len(bib_rows)

\* C11: when process_ground_truth_folder completes, processed_files is the
\* number of files read without error, total_entries + failed_entries is
\* the number of candidate lines (trimmed, non-empty, not "Author Entries")
\* in those files, total_entries is the number of rows the run added and
\* failed_entries the number of candidate lines whose INSERT was rejected.
C11_Counters ==
    [][ret'.kind = "processing_complete"
          => /\ ret'.processed_files =
                   Cardinality(ReadableFiles(folder_path'.files))
             /\ ret'.total_entries + ret'.failed_entries =
                   Len(CandidateLines(folder_path'.files))
             /\ ret'.total_entries = RowsAdded
             /\ ret'.failed_entries =
                   Len(CandidateLines(folder_path'.files)) - RowsAdded]_vars

\* a run over two files stored every candidate line
C11_Witness ==
    /\ ret.kind = "processing_complete"
    /\ ret.processed_files = 2
    /\ ret.total_entries = 3
    /\ ret.failed_entries = 0

\* C12: a rejected INSERT or an unreadable file never aborts the batch: a
\* run over a folder with files always ends with "Processing complete"; on
\* a table that accepts the INSERT the rows added are those of every
\* candidate line of every readable file, in order, also of the files
\* after an unreadable one; on a table that rejects it every candidate
\* line is still counted and every readable file still counted processed.
C12_BatchContinues ==
    [][(ret'.kind \in {"folder_not_found", "no_text_files",
                       "processing_complete"}
          /\ folder_path'.exists /\ Len(folder_path'.files) > 0)
          => /\ ret'.kind = "processing_complete"
             /\ IF InsertAccepted(bib_schema')
                THEN SubSeq(source_line', Len(source_line) + 1,
                            Len(source_line')) =
                        CandidateLines(folder_path'.files)
                ELSE /\ ret'.failed_entries =
                           Len(CandidateLines(folder_path'.files))
                     /\ ret'.processed_files =
                           Cardinality(ReadableFiles(folder_path'.files))
                     /\ bib_rows' = bib_rows]_vars

\* three INSERTs were rejected in a run over three files, one unreadable
C12_Witness ==
    /\ ret.kind = "processing_complete"
    /\ ret.failed_entries = 3
    /\ ret.processed_files = 2

\* C13: on an existing folder without text files the tool returns the
\* "No text files found" message, reports no entry and adds or changes
\* no row.
C13_NoTextFiles ==
    [][(ret'.kind \in {"folder_not_found", "no_text_files",
                       "processing_complete"}
          /\ folder_path'.exists /\ folder_path'.files = <<>>)
          => /\ ret'.kind = "no_text_files"
             /\ ret'.total_entries = 0
             /\ bib_rows' = bib_rows]_vars

\* the empty folder was ingested into a table that holds rows
C13_Witness == ret.kind = "no_text_files" /\ Len(bib_rows) > 0

----------------------------------------------------------------------------
(* Properties of the clearing tools and of the tools' error handling.      *)

\* C14 (under Spec; clear_bibliography and clear_json_bibliography): a
\* clearing tool invoked when the database file is absent, the table is
\* absent or the table is empty returns a message, does not raise, and
\* leaves the store as it was: same file, same table, same rows.
C14_ClearIsNoOp ==
    [][((ClearBibliography \/ ClearJsonBibliography)
          /\ (~ db_exists \/ bib_schema = "none" \/ Len(TableRows) = 0))
       => /\ ret'.kind # "raised"
          /\ UNCHANGED <<db_exists, bib_schema, bib_rows, json_rows>>]_vars

\* C15 (under SpecWords): every tool returns a string and lets no
\* exception escape, whatever the state of the database.
C15_ToolsReturnText == ret.kind # "raised"

\* a tool of the word-frequency and OCR family is invoked with the path of
\* a file, folder or database that does not exist
NotFoundCall ==
    \/ ~ word_db /\ \E word \in QueryWords : QueryWordFrequency(word)
    \/ ~ word_db /\ \E limit \in Limits : GetAllWordFrequencies(limit)
    \/ ~ word_db /\ ClearWordFrequencies
    \/ \E file \in TxtFiles : ~ file.exists /\ StoreWordFrequencies(file)
    \/ \E image \in Images : ~ image.exists /\ OcrImageToText(image)
    \/ \E folder \in ImageFolders :
          ~ folder.exists /\ BatchOcrFolder(folder)

\* C16 (under SpecWords): a tool invoked with a path that does not exist
\* returns a descriptive string and leaves no partial state: no database
\* file, table or output folder is created or changed.
C16_NotFoundNoPartialState ==
    [][NotFoundCall
       => /\ ret'.kind # "raised"
          /\ UNCHANGED <<word_db, word_table, word_freq, ocr_vars>>]_vars

\* the positions of text where a maximal run of word characters starts
TokenStarts(text) ==
    {i \in 1..Len(text) :
        text[i] \in WordChars /\ (i = 1 \/ text[i - 1] \notin WordChars)}

\* the lower-cased run that starts at i
TokenAt(text, i) == Lower(SubSeq(text, i, RunEnd(text, i, WordChars) - 1))

\* how often w is a lower-cased word token of text
Occurrences(w, text) ==
    Cardinality({i \in TokenStarts(text) : TokenAt(text, i) = w})

\* the stored count of w, 0 if absent
CountOf(freq, w) == IF w \in DOMAIN freq THEN freq[w] ELSE 0

\* C17 (under SpecWords): after store_word_frequencies returns its
\* success message, the stored count of every word is its count before
\* the call (0 if absent) plus its number of occurrences among the
\* lower-cased word tokens of the file, no other word is stored, and the
\* reported number is the number of tokens; and every stored count is at
\* least 1 across any sequence of calls.
C17_StoreAdds ==
    /\ [][ret'.kind = "stored"
           => /\ DOMAIN word_freq' =
                    DOMAIN word_freq \cup
                    {TokenAt(txt_file_path'.content, i) :
                        i \in TokenStarts(txt_file_path'.content)}
              /\ \A w \in DOMAIN word_freq' :
                    word_freq'[w] = CountOf(word_freq, w)
                        + Occurrences(w, txt_file_path'.content)
              /\ ret'.words =
                    Cardinality(TokenStarts(txt_file_path'.content))]_vars
    /\ [](\A w \in DOMAIN word_freq : word_freq[w] >= 1)

\* a file with three tokens was stored on top of earlier counts
C17_Witness ==
    /\ ret.kind = "stored"
    /\ ret.words = 3
    /\ \E w \in DOMAIN word_freq : word_freq[w] >= 4

\* s is an initial part of t
IsPrefix(s, t) == Len(s) <= Len(t) /\ SubSeq(t, 1, Len(s)) = s

\* what the tools return that delete the rows or drop the table
DropKinds ==
    {"deleted", "json_table_created", "json_cleared", "no_json_files",
     "json_processing_complete"}

\* C18 (under Spec): bibliography rows are never mutated: a step of any
\* tool other than a clear or a table drop keeps every stored row with
\* its field values and may only append rows; rows disappear only by
\* clear_bibliography or a table drop, which remove all of them.
C18_RowsImmutable ==
    [][IF ret'.kind \in DropKinds
       THEN bib_rows' = <<>>
       ELSE /\ IsPrefix(bib_rows, bib_rows')
            /\ IsPrefix(json_rows, json_rows')]_vars

\* a second run appended rows behind those of an earlier one
C18_Witness ==
    /\ ret.kind = "processing_complete"
    /\ ret.total_entries > 0
    /\ Len(bib_rows) > ret.total_entries

----------------------------------------------------------------------------
(* Properties of the chat clients, checked under SpecClient.               *)

\* C19: in each chat client a failing LLM call is caught and the chat loop
\* stays alive: the step in which chat.completions.create raises takes
\* the client back to input(), never out of main().
C19_LlmFailureCaught ==
    [][(LlmResponds(ErrorResponse) \/ FinalLlmResponds(TRUE))
       => client_pc' = "input"]_vars

\* the messages recorded behind the last assistant message
RECURSIVE SinceAssistant(_)
SinceAssistant(history) ==
    IF Len(history) = 0 \/ history[Len(history)].role = "assistant"
    THEN <<>>
    ELSE Append(SinceAssistant(SubSeq(history, 1, Len(history) - 1)),
                history[Len(history)])

\* the call names a tool the client has
IsKnown(call) == call.known

\* C20: at most one tool call is in flight at any time, and only while
\* the coroutine awaits it, so none is in flight when the next user turn
\* is read; in terminal_client the calls of one response are made in the
\* listed order, each with its tool message (result or error) recorded
\* before the next one starts.
C20_OneToolCallAtATime ==
    /\ Cardinality(in_flight) <= 1
    /\ in_flight = IF client_pc = "awaiting"
                   THEN {tool_calls[call_index].id}
                   ELSE {}
    /\ (client = "terminal_client"
          /\ client_pc \in {"tool_calls", "awaiting"})
       => CallIds(SinceAssistant(conversation_history)) =
             CallIds(SelectSeq(SubSeq(tool_calls, 1, call_index - 1),
                               IsKnown))

\* the second call of a response is in flight, the first one recorded
C20_Witness ==
    /\ client = "terminal_client"
    /\ client_pc = "awaiting"
    /\ call_index = 2
    /\ Len(SinceAssistant(conversation_history)) = 1

----------------------------------------------------------------------------
(* Claims C21 and C22: connections, and the table after                    *)
(* clear_json_bibliography.                                                *)

\* C21: every tool invocation that opened a connection to the store has
\* closed it when it returns, on the success path and on every error path
C21_ConnectionsClosed == ret.closed

\* C22: after clear_json_bibliography succeeded on a database that held a
\* bibliography table, an empty table exists, and a following
\* get_json_bibliography_stats or display_all_json_bibliography reports
\* zero entries and no error
C22_ClearRecreatesTable ==
    /\ [](ret.kind = "json_cleared"
            => bib_schema = "json" /\ TableRows = <<>>)
    /\ [][ /\ ret.kind = "json_cleared"
           /\ GetJsonBibliographyStats \/ DisplayAllJsonBibliography
           => /\ ret'.kind \in {"stats", "no_entries"}
              /\ ret'.total_entries = 0 ]_vars

----------------------------------------------------------------------------
(* Claims C23 to C25 and C30: the fields of the general cascade.           *)

\* the segments of the trimmed line
Segments == Split(Strip(entry_text), PeriodSpace)

\* the trimmed last segment
LastSegment == Strip(Segments[Len(Segments)])

\* the line has more than two segments and its trimmed last segment is
\* non-empty and has neither a run of four digits nor a colon
LastSegmentIsNote ==
    /\ Len(Segments) > 2
    /\ LastSegment # <<>>
    /\ \A i \in 1..Len(LastSegment) :
          /\ ~ FourDigitsAt(LastSegment, i)
          /\ LastSegment[i] # ":"

\* the segments after the first, without the last one when it is the note
MiddleText ==
    Join(SubSeq(Segments, 2,
                IF LastSegmentIsNote THEN Len(Segments) - 1
                ELSE Len(Segments)),
         PeriodSpace)

\* C23: in the general cascade note is the trimmed last segment exactly
\* when the line has more than two segments and that segment is non-empty
\* and has no run of four digits and no colon; the title and the
\* publication fields are then extracted from the segments between the
\* first and the last, and otherwise note is null and they are extracted
\* from all segments after the first
C23_Note ==
    ReturnedGeneral
    => /\ Val(result).note
            = IF LastSegmentIsNote THEN Some(LastSegment) ELSE None
       /\ Val(result)
            = GeneralFields(Segments, LibrarySearch(Strip(entry_text)),
                            StripLibrary(MiddleText,
                                         LibrarySearch(Strip(entry_text))))

\* a note was taken from a last segment that has a page count, and the
\* result has no pages
C23_Witness ==
    /\ ReturnedGeneral
    /\ LastSegmentIsNote
    /\ Len(Segments) = 3
    /\ Val(result).note = Some(LastSegment)
    /\ IsSome(Val(result).title)
    /\ IsSome(PagesSearch(LastSegment))
    /\ Val(result).pages = None

\* the middle text the title is matched on: the library code is removed
\* from it first
TitleText == StripLibrary(MiddleText, LibrarySearch(Strip(entry_text)))

\* the length of the longest prefix of s without a period
LeadingRun(s) ==
    Max({k \in 0..Len(s) : \A i \in 1..k : s[i] # "."})

\* the length of the title span of s: the leading run, extended over one
\* "..." that directly follows it and the run after that
TitleSpan(s) ==
    IF StartsWithAt(s, LeadingRun(s) + 1, <<".", ".", ".">>)
    THEN LeadingRun(s) + 3 + LeadingRun(From(s, LeadingRun(s) + 4))
    ELSE LeadingRun(s)

\* the result before the publication fields are filled in
WithoutPublication(res) ==
    [res EXCEPT !.year = None, !.pages = None, !.place = None,
                !.publisher = None]

\* C24: in the general cascade title is the trimmed title span of the
\* middle text (its longest leading run of non-period characters, extended
\* by one "..." and the non-period text after it), so it has no period
\* other than one ellipsis; title is null exactly when the middle text is
\* empty or starts with a period; the publication fields are extracted
\* from the middle text after the span with the periods and spaces at its
\* two ends removed
C24_Title ==
    ReturnedGeneral
    => /\ Val(result).title = None
            <=> (TitleText = <<>> \/ Head(TitleText) = ".")
       /\ IsSome(Val(result).title)
            => /\ Val(Val(result).title)
                    = Strip(SubSeq(TitleText, 1, TitleSpan(TitleText)))
               /\ \/ ~ Contains(Val(Val(result).title), <<".">>)
                  \/ \E i \in 1..Len(Val(Val(result).title)) :
                        /\ StartsWithAt(Val(Val(result).title), i,
                                        <<".", ".", ".">>)
                        /\ Count(Val(Val(result).title), ".") = 3
               /\ Val(result)
                    = Publication(WithoutPublication(Val(result)),
                                  StripChars(From(TitleText,
                                                  TitleSpan(TitleText) + 1),
                                             {".", " "}))

\* a title with an ellipsis was returned, with text after the ellipsis and
\* publication fields from the text after the title
C24_Witness ==
    /\ ReturnedGeneral
    /\ IsSome(Val(result).title)
    /\ Count(Val(Val(result).title), ".") = 3
    /\ Val(Val(result).title)[Len(Val(Val(result).title))] # "."
    /\ IsSome(Val(result).year)

\* p is k digits, a run of whitespace characters whose length is in
\* `gaps`, and "p."
IsPageCount(p, k, gaps) ==
    /\ Len(p) - k - 2 \in gaps
    /\ \A i \in 1..k : p[i] \in DigitChars
    /\ \A i \in (k + 1)..(Len(p) - 2) : p[i] \in WhiteSpace
    /\ SubSeq(p, Len(p) - 1, Len(p)) = <<"p", ".">>

CrossReferenceOrNoPeriod ==
    \/ /\ Contains(Strip(entry_text), <<" ", "S", "e", "e", " ">>)
       /\ Count(Strip(entry_text), ".") <= 2
    \/ ~ Contains(Strip(entry_text), <<".", " ">>)

\* C30: in every result place is null if and only if publisher is null,
\* and the result of a cross-reference line or of a line without ". " has
\* title, year, place, publisher, pages and library all null
C30_PlacePublisher ==
    Returned
    => /\ Val(result).place = None <=> Val(result).publisher = None
       /\ CrossReferenceOrNoPeriod
            => \A key \in {"title", "year", "place", "publisher", "pages",
                            "library"} :
                  Val(result)[key] = None

\* a cross-reference line or a line without ". " that holds a library
\* code was returned with an author and no library
C30_Witness ==
    /\ Returned
    /\ CrossReferenceOrNoPeriod
    /\ IsSome(LibrarySearch(Strip(entry_text)))
    /\ IsSome(Val(result).author)
    /\ Val(result).library = None

----------------------------------------------------------------------------
(* Claims C26 to C28: repeated and mixed ingestion, checked under Spec.    *)

\* a row without its id
WithoutId(row) == [key \in DOMAIN row \ {"id"} |-> row[key]]

\* C26: a completed run of process_ground_truth_folder adds exactly
\* total_entries rows, under ids that are distinct and that no row already
\* had; a run that directly follows a completed run on the same folder adds
\* the same rows again under new ids, so that n runs leave n times the
\* rows of one run
C26_NotIdempotent ==
    [][ret'.kind = "processing_complete"
          => /\ Len(bib_rows') = Len(bib_rows) + ret'.total_entries
             /\ \A i, j \in 1..Len(bib_rows') :
                   (i # j /\ j > Len(bib_rows))
                      => bib_rows'[i].id # bib_rows'[j].id
             /\ (ret.kind = "processing_complete"
                    /\ folder_path' = folder_path)
                   => /\ ret' = ret
                      /\ Len(bib_rows) >= RowsAdded
                      /\ \A k \in 1..RowsAdded :
                            WithoutId(bib_rows'[Len(bib_rows) + k]) =
                               WithoutId(bib_rows[Len(bib_rows) - RowsAdded
                                                  + k])]_vars

\* the same folder was ingested twice in a row: the table holds every row
\* of the run twice
C26_Witness ==
    /\ ret.kind = "processing_complete"
    /\ ret.total_entries > 1
    /\ Len(bib_rows) = 2 * ret.total_entries
    /\ \A k \in 1..ret.total_entries :
          /\ WithoutId(bib_rows[k])
                = WithoutId(bib_rows[ret.total_entries + k])
          /\ bib_rows[k].id # bib_rows[ret.total_entries + k].id

\* C27: when process_ground_truth_folder or process_json_ground_truth
\* returns its "No ... files found" message for an existing folder, the
\* rows the bibliography table held are unchanged
C27_NoFilesKeepsRows ==
    [][ret'.kind \in {"no_text_files", "no_json_files"}
          => /\ bib_rows' = bib_rows
             /\ json_rows' = json_rows]_vars

\* C28: while the bibliography table is the one that
\* create_json_bibliography_table or process_json_ground_truth created,
\* process_ground_truth_folder on a folder with text files that hold k
\* candidate lines reports "Processing complete" with total_entries = 0
\* and failed_entries = k, and adds no row
C28_TextIntoJsonTable ==
    [][(/\ bib_schema = "json"
        /\ ret'.kind \in {"folder_not_found", "no_text_files",
                          "processing_complete"}
        /\ folder_path'.exists
        /\ Len(folder_path'.files) > 0)
          => /\ ret'.kind = "processing_complete"
             /\ ret'.total_entries = 0
             /\ ret'.failed_entries = Len(CandidateLines(folder_path'.files))
             /\ bib_schema' = "json"
             /\ bib_rows' = bib_rows
             /\ json_rows' = json_rows]_vars

\* three lines were ingested into a table that process_json_ground_truth
\* had filled: all three failed
C28_Witness ==
    /\ ret.kind = "processing_complete"
    /\ bib_schema = "json"
    /\ Len(json_rows) > 0
    /\ ret.total_entries = 0
    /\ ret.failed_entries = 3

----------------------------------------------------------------------------
(* Claim C29: the tool messages of terminal_client, checked under          *)
(* SpecClient.                                                             *)

\* the positions of the tool-role messages that directly follow message i
\* and answer the tool call id
ToolMessagesFor(i, id) ==
    {j \in (i + 1)..Len(conversation_history) :
        /\ \A m \in (i + 1)..j : conversation_history[m].role = "tool"
        /\ conversation_history[j].id = id}

\* C29: once terminal_client is through the tool calls of an LLM response,
\* every assistant message that carries tool calls is directly followed by
\* exactly one tool-role message for each of its tool_call ids, also when
\* a tool name is not in available_tools or a tool call raises
C29_OneToolMessagePerCall ==
    (client = "terminal_client"
       /\ client_pc \in {"input", "llm", "final_llm", "exited"})
    => \A i \in 1..Len(conversation_history) :
          \A k \in 1..Len(conversation_history[i].calls) :
             Cardinality(ToolMessagesFor(i,
                            conversation_history[i].calls[k])) = 1

====
